---- MODULE Spec2Model ----
(***************************************************************************)
(* Model of the NetworkManager WireGuard backend                           *)
(* (talpid-wireguard/src/wireguard_kernel/nm_tunnel.rs).                   *)
(*                                                                         *)
(* The backend talks to two external parties: the NetworkManager service   *)
(* over D-Bus (profile creation, name query, profile removal) and the      *)
(* kernel over netlink (index lookup by name, device lookup by name,       *)
(* device mutation by index).  Both are part of the state; the interface   *)
(* can be removed and recreated behind the backend's back.                 *)
(*                                                                         *)
(* The caller holds one backend at a time: it constructs the next one      *)
(* after the previous construction failed or the previous backend was      *)
(* stopped.  Backend instances are numbered 1, 2, ... in the order of the  *)
(* new calls, and the profile NetworkManager creates for instance i is     *)
(* profile i.                                                              *)
(*                                                                         *)
(* new is a blocking call and is one step.  set_config and                 *)
(* get_tunnel_stats are futures with one suspension point, the await of    *)
(* the kernel's answer: one step runs them up to the await, one step is    *)
(* the kernel's answer.                                                    *)
(*                                                                         *)
(* stop takes Box<Self>, so Rust lets a caller run it once per backend,    *)
(* and not while a get_tunnel_stats future borrows the backend.  The model *)
(* keeps the backend record after stop (handle taken) and lets further     *)
(* stop, start_daita and get_interface_name calls act on it: these are the *)
(* "stop-equivalent" calls on an already stopped backend that the else     *)
(* branch of stop answers.  No future is created from a stopped backend;   *)
(* a set_config future created before owns its clones and may complete     *)
(* after stop.  The caller may drop a future instead of polling it to      *)
(* completion: a set_config future before its first poll or at the await   *)
(* (the mutation it sent may still be applied), a get_tunnel_stats future  *)
(* at the await.                                                           *)
(***************************************************************************)
EXTENDS Integers, Sequences, FiniteSets, TLC

(* ------------------------------ bounds -------------------------------- *)

\* Number of backend instances the caller constructs, one after another.
MaxBackends == 2

\* Largest interface index the kernel hands out (0 stands for "no interface").
MaxIndex == 2

\* How many times stop (or a stop-equivalent call) is made on one backend.
MaxStopCalls == 2

\* Most peers of a translated Config, and most tunnel addresses.
MaxPeers == 2
MaxAddrs == 2

\* Bytes of a key in the model (32 in the program: ten groups of three
\* bytes and a rest of two; here one group and a rest of two).
KeyLen == 5

\* Most bytes of a verified file, and the number of checksum values.
MaxContent == 2
HashMod == 8

\* Tasks that use clones of one AddressCache concurrently.
NumTasks == 2

Profiles == 1..MaxBackends

(* ----------------------------- constants ------------------------------ *)

\* Option::None for the profile handle (profiles are numbered from 1).
None == 0

\* crate::config::MULLVAD_INTERFACE_NAME, the well-known default name.
MULLVAD_INTERFACE_NAME == "wg0-mullvad"

\* Interface names NetworkManager may assign to a profile.
Names == {MULLVAD_INTERFACE_NAME, "wg1"}

\* A Config is modelled by its peer set (the Config invariant: at least
\* one peer).
Configs == {{"peerA"}, {"peerA", "peerB"}}

\* DaitaSettings values handed to start_daita.
DaitaSettingsSet == {"daitaA", "daitaB"}

\* Failures the D-Bus client reports: the bus cannot be reached, or the
\* service answered and refused.
NmTransport == "transport"
NmRejected == "rejected"
NmErrors == {NmTransport, NmRejected}

(* --------------------------- error values ----------------------------- *)

\* A result is a variant name with the cause it wraps ("none" for a unit
\* variant): two results are equal iff a caller cannot tell them apart.
OkResult == [variant |-> "Ok", cause |-> "none"]

\* new has not been called yet.
PendingResult == [variant |-> "pending", cause |-> "none"]

\* Error::NetworkManager(#[from] NetworkManagerError), wrapped in
\* WgKernelError::NetworkManager by the two map_err of new.
WgKernelError_NetworkManager(err) ==
    [variant |-> "WgKernelError::NetworkManager(Error::NetworkManager)", cause |-> err]

\* The error `?` produces from a failed Handle::connect().
WgKernelError_Netlink ==
    [variant |-> "WgKernelError(Handle::connect)", cause |-> "netlink"]

TunnelError_StopWireguardError(err) ==
    [variant |-> "TunnelError::StopWireguardError", cause |-> err]

TunnelError_GetConfigError ==
    [variant |-> "TunnelError::GetConfigError", cause |-> "none"]

TunnelError_SetConfigError ==
    [variant |-> "TunnelError::SetConfigError", cause |-> "none"]

TunnelError_DaitaNotSupported ==
    [variant |-> "TunnelError::DaitaNotSupported", cause |-> "none"]

(* ------------------------------ state --------------------------------- *)

VARIABLES
    gen,         \* the number of new calls so far: the current backend instance
    pc,          \* "Uninitialized", "Active", "Failed" (new failed) or "Stopped"
    self,        \* the fields of the NetworkManagerTunnel new returned
    newResult,   \* what the last new call returned
    steps,       \* the external requests the last new call issued, in order
    stages,      \* the construction states the last new call went through, in order
    nameReply,   \* NetworkManager's answer to the name query of the last new call
    nmProfiles,  \* NetworkManager: the connection profiles that exist
    removeReqs,  \* NetworkManager: removeReqs[p] = removal requests received for profile p
    stopCalls,   \* stop calls made on the current backend
    ifindex,     \* kernel: ifindex[n] = index of the interface named n, 0 if there is none
    devpeers,    \* kernel: devpeers[n] = live peer set of the WireGuard device named n
    nextIndex,   \* kernel: the index the next created interface gets
    scf,         \* the set_config future in flight
    stf,         \* the get_tunnel_stats future in flight ("none" or "sent")
    seenIndex,   \* history: the last interface index the current backend obtained (0: none)
    last,        \* the call or step the last transition made, its result and its requests
    remembered,  \* history: one failure surfaced earlier, as <<kind, error value>>
    cfg,         \* translation: the Config handed to convert_config_to_dbus
    deviceConfig, \* translation: the DeviceConfig it returned (empty before the call)
    binFile,     \* verification: the file at bin_path
    expectedHash, \* verification: the expected checksum
    verifyResult, \* verification: the entry point called and what it returned
    writePath,   \* cache: whether the cache has a write path
    address,     \* cache: inner.address, the selected address
    lock,        \* cache: the task holding the mutex of inner (0: free)
    disk,        \* cache: the content of the file at write_path (empty: no file)
    cpc,         \* cache: cpc[t] = where task t is in set_address ("idle": nowhere)
    carg,        \* cache: carg[t] = the address task t is setting
    persisted,   \* cache history: the addresses a finalize put in the file
    cacheLast,   \* cache: the last step made on the cache and its result
    versionFiles, \* build: versionFiles[t] = the content of the version file of target t
    git,         \* build: the git command and repository around the build script
    built        \* build: the last get_product_version call and what it produced

nmVars == <<gen, pc, self, newResult, steps, stages, nameReply, nmProfiles, removeReqs, stopCalls>>
kernelVars == <<ifindex, devpeers, nextIndex>>
futVars == <<scf, stf, seenIndex>>
backendVars == <<nmVars, kernelVars, futVars, last, remembered>>
convVars == <<cfg, deviceConfig>>

\* The variables of the components the backend's operations do not touch.
verVars == <<binFile, expectedHash, verifyResult>>
cacheVars == <<writePath, address, lock, disk, cpc, carg, persisted, cacheLast>>
buildVars == <<versionFiles, git, built>>
extVars == <<convVars, verVars, cacheVars, buildVars>>
vars == <<backendVars, extVars>>

\* No backend object: new has not returned one.
NoSelf == [tunnel |-> None, interface_name |-> "", netlink_connections |-> FALSE]

NoFuture == [pc |-> "none", interface_name |-> "", config |-> {}, index |-> 0]

\* A request sent to NetworkManager or to the kernel.
Req(type, profile, name, index, config) ==
    [type |-> type, profile |-> profile, name |-> name, index |-> index, config |-> config]

ReqDbusConnect == Req("dbus_connect", 0, "", 0, {})
ReqCreateProfile == Req("nm_create_wg_tunnel", 0, "", 0, {})
ReqGetName(p) == Req("nm_get_interface_name", p, "", 0, {})
ReqRemoveProfile(p) == Req("nm_remove_tunnel", p, "", 0, {})
ReqNetlinkConnect == Req("netlink_connect", 0, "", 0, {})
ReqGetByName(n) == Req("wg_get_by_name", 0, n, 0, {})
ReqIfaceIndex(n) == Req("iface_index", 0, n, 0, {})
ReqSetConfig(i, c) == Req("wg_set_config", 0, "", i, c)

\* The types of the requests of a sequence.
Types(reqs) == {reqs[i].type : i \in 1..Len(reqs)}

\* The record `last` holds after a transition: the backend instance, what
\* it did, the result returned (OkResult when the step returns nothing
\* yet), the requests the step sent, and the value returned (a name, a
\* stats snapshot) or used (config, index; prevIndex is the index the
\* backend had last obtained before this step).  kind is the failure that
\* happened ("none" when none did): history, the caller sees only result.
Last(b, op, result, reqs, kind) ==
    [b |-> b, op |-> op, result |-> result, reqs |-> reqs, kind |-> kind,
     name |-> "", stats |-> {}, config |-> {}, index |-> 0, prevIndex |-> 0]

NothingRemembered == <<"none", OkResult>>

\* The caller may keep one failure to compare later ones with: after a
\* step that left the record l, the memory is unchanged, or nothing was
\* remembered yet and the failure of l is kept.
Remember(l) ==
    remembered' \in {remembered} \cup
        (IF remembered = NothingRemembered /\ l.kind # "none"
         THEN {<<l.kind, l.result>>} ELSE {})

\* The failure kind of an error the D-Bus client reported.
NmKind(err) == IF err = NmTransport THEN "transport" ELSE "service_rejection"

InitBackend ==
    /\ gen = 0
    /\ pc = "Uninitialized"
    /\ self = NoSelf
    /\ newResult = PendingResult
    /\ steps = <<>>
    /\ stages = <<>>
    /\ nameReply = "none"
    /\ nmProfiles = {}
    /\ removeReqs = [p \in Profiles |-> 0]
    /\ stopCalls = 0
    /\ ifindex = [n \in Names |-> 0]
    /\ devpeers = [n \in Names |-> {}]
    /\ nextIndex = 1
    /\ scf = NoFuture
    /\ stf = "none"
    /\ seenIndex = 0
    /\ last = Last(0, "init", OkResult, <<>>, "none")
    /\ remembered = NothingRemembered

(* --------------------- NetworkManager (D-Bus client) ------------------- *)

\* create_wg_tunnel: on success the service holds the new profile p.
NmCreateProfile(profiles, p) == profiles \cup {p}

\* remove_tunnel: on success the profile is gone, on failure it stays.
NmRemoveProfile(profiles, p, reply) ==
    IF reply = "ok" THEN profiles \ {p} ELSE profiles

\* The profiles a sequence of requests asks NetworkManager to remove.
RemovalsIn(reqs) ==
    {p \in Profiles : \E i \in 1..Len(reqs) :
        reqs[i].type = "nm_remove_tunnel" /\ reqs[i].profile = p}

\* NetworkManager's profiles after it received the requests of one step:
\* a creation it accepted adds profile p, a removal is carried out unless
\* it fails.
NmProfilesAfter(reqs, p, create, remove) ==
    LET created == IF "nm_create_wg_tunnel" \in Types(reqs) /\ create = "ok"
                   THEN NmCreateProfile(nmProfiles, p) ELSE nmProfiles
    IN  IF RemovalsIn(reqs) = {} THEN created
        ELSE NmRemoveProfile(created, CHOOSE q \in RemovalsIn(reqs) : TRUE, remove)

\* NetworkManager's count of removal requests after the requests of one step.
NmRemoveReqsAfter(reqs) ==
    [p \in Profiles |->
        removeReqs[p] + Cardinality({i \in 1..Len(reqs) :
            reqs[i].type = "nm_remove_tunnel" /\ reqs[i].profile = p})]

\* Dropping a WireguardTunnel handle: the handle is a pair of object paths,
\* removal is the explicit remove_tunnel call only; a drop sends nothing.
DropWireguardTunnel(handle) == <<>>

(* ------------------------------ kernel -------------------------------- *)

\* talpid_net::unix::iface_index: the index of the interface with this
\* name, 0 standing for the error of a missing interface.
iface_index(name) == ifindex[name]

\* wg_handle.get_by_name: the device message of the named device.
wg_get_by_name(name) ==
    [found |-> ifindex[name] # 0, index |-> ifindex[name], peers |-> devpeers[name]]

\* Stats::parse_device_message: one entry per peer of the device message;
\* the interface index of the message is not part of the stats.
parse_device_message(device) == device.peers

\* The names of the devices with the given index (at most one).
DeviceWithIndex(index) == {n \in Names : index # 0 /\ ifindex[n] = index}

\* The kernel's handling of a set-device request: with a device of that
\* index and attributes it accepts, the device's peer set is replaced.
KernelSetDevice(index, config, accept) ==
    IF DeviceWithIndex(index) # {} /\ accept
    THEN [n \in Names |-> IF n \in DeviceWithIndex(index) THEN config ELSE devpeers[n]]
    ELSE devpeers

\* An interface appears (NetworkManager activates a profile, or anything
\* else creates it) with a fresh index and no peers.
IfaceCreate(n) ==
    /\ ifindex[n] = 0
    /\ nextIndex <= MaxIndex
    /\ ifindex' = [ifindex EXCEPT ![n] = nextIndex]
    /\ nextIndex' = nextIndex + 1
    /\ devpeers' = [devpeers EXCEPT ![n] = {}]
    /\ last' = Last(0, "iface_create", OkResult, <<>>, "none")
    /\ UNCHANGED <<nmVars, futVars>>

\* An interface is removed behind the backend's back.
IfaceRemove(n) ==
    /\ ifindex[n] # 0
    /\ ifindex' = [ifindex EXCEPT ![n] = 0]
    /\ devpeers' = [devpeers EXCEPT ![n] = {}]
    /\ last' = Last(0, "iface_remove", OkResult, <<>>, "none")
    /\ UNCHANGED <<nmVars, nextIndex, futVars>>

(* ------------------- NetworkManagerTunnel::new ------------------------ *)

\* Mutant of new_interface_name: the resolved name is ignored.
new_interface_name_always_default(reply) == MULLVAD_INTERFACE_NAME

\* Lines 48-54: the name NetworkManager resolved, or the default name when
\* the query failed (reply "err").
new_interface_name(reply) ==
    IF reply = "err" THEN MULLVAD_INTERFACE_NAME ELSE reply

\* Mutant of new: the error of create_wg_tunnel is not propagated.
new_ignores_create_failure(handle, connect, create, name, connected) ==
    IF connect # "ok"
    THEN [returned |-> FALSE, self |-> NoSelf,
          result |-> WgKernelError_NetworkManager(connect),
          reqs |-> <<ReqDbusConnect>>,
          stages |-> <<"Uninitialized">>]
    ELSE IF ~connected
    THEN [returned |-> FALSE, self |-> NoSelf,
          result |-> WgKernelError_Netlink,
          reqs |-> <<ReqDbusConnect, ReqCreateProfile, ReqGetName(handle), ReqNetlinkConnect>>,
          stages |-> <<"Uninitialized", "ProfileCreated", "ChannelReady">>]
    ELSE [returned |-> TRUE,
          self |-> [tunnel |-> handle, interface_name |-> new_interface_name(name),
                    netlink_connections |-> TRUE],
          result |-> OkResult,
          reqs |-> <<ReqDbusConnect, ReqCreateProfile, ReqGetName(handle), ReqNetlinkConnect>>,
          stages |-> <<"Uninitialized", "ProfileCreated", "ChannelReady", "Active">>]

\* Lines 36-63.  connect, create, name and connected are the answers of
\* NetworkManager::new, create_wg_tunnel (handle: the profile it returns),
\* get_interface_name and Handle::connect.  The outcome: whether a backend
\* is returned, its fields, the result, the requests issued and the
\* construction states gone through.
new(handle, connect, create, name, connected) ==
    IF connect # "ok"
    THEN [returned |-> FALSE, self |-> NoSelf,
          result |-> WgKernelError_NetworkManager(connect),
          reqs |-> <<ReqDbusConnect>>,
          stages |-> <<"Uninitialized">>]
    ELSE IF create # "ok"
    THEN [returned |-> FALSE, self |-> NoSelf,
          result |-> WgKernelError_NetworkManager(create),
          reqs |-> <<ReqDbusConnect, ReqCreateProfile>>,
          stages |-> <<"Uninitialized">>]
    ELSE IF ~connected
    THEN [returned |-> FALSE, self |-> NoSelf,
          result |-> WgKernelError_Netlink,
          reqs |-> <<ReqDbusConnect, ReqCreateProfile, ReqGetName(handle), ReqNetlinkConnect>>
                   \o DropWireguardTunnel(handle),
          stages |-> <<"Uninitialized", "ProfileCreated", "ChannelReady">>]
    ELSE [returned |-> TRUE,
          self |-> [tunnel |-> handle, interface_name |-> new_interface_name(name),
                    netlink_connections |-> TRUE],
          result |-> OkResult,
          reqs |-> <<ReqDbusConnect, ReqCreateProfile, ReqGetName(handle), ReqNetlinkConnect>>,
          stages |-> <<"Uninitialized", "ProfileCreated", "ChannelReady", "Active">>]

\* The failure that happened in a new call with these answers.
NewKind(connect, create, connected) ==
    IF connect # "ok" THEN NmKind(connect)
    ELSE IF create # "ok" THEN NmKind(create)
    ELSE IF ~connected THEN "netlink_transport"
    ELSE "none"

\* The caller constructs its next backend.
New(connect, create, name, connected) ==
    /\ pc \in {"Uninitialized", "Failed", "Stopped"}
    /\ gen < MaxBackends
    /\ scf.pc = "none"
    /\ stf = "none"
    /\ gen' = gen + 1
    /\ pc' = IF new(gen + 1, connect, create, name, connected).returned
             THEN "Active" ELSE "Failed"
    /\ self' = new(gen + 1, connect, create, name, connected).self
    /\ newResult' = new(gen + 1, connect, create, name, connected).result
    /\ steps' = new(gen + 1, connect, create, name, connected).reqs
    /\ stages' = new(gen + 1, connect, create, name, connected).stages
    /\ nameReply' = IF "nm_get_interface_name" \in Types(steps') THEN name ELSE "none"
    /\ nmProfiles' = NmProfilesAfter(steps', gen + 1, create, "ok")
    /\ removeReqs' = NmRemoveReqsAfter(steps')
    /\ stopCalls' = 0
    /\ seenIndex' = 0
    /\ last' = Last(gen + 1, "new", newResult', steps', NewKind(connect, create, connected))
    /\ UNCHANGED <<kernelVars, scf, stf>>

(* ----------------------- impl Tunnel: lifecycle ----------------------- *)

\* A backend the caller holds: new returned it.  A stopped backend stays
\* callable in the model (see the header).
Returned == pc \in {"Active", "Stopped"}

\* Lines 68-70.
get_interface_name(s) == s.interface_name

GetInterfaceName ==
    /\ Returned
    /\ last' = [Last(gen, "get_interface_name", OkResult, <<>>, "none")
                  EXCEPT !.name = get_interface_name(self)]
    /\ UNCHANGED <<nmVars, kernelVars, futVars>>

\* Mutant of stop: the handle is borrowed (as_ref) instead of taken.
stop_keeps_handle(s, reply) ==
    IF s.tunnel # None
    THEN [self |-> s,
          reqs |-> <<ReqRemoveProfile(s.tunnel)>>,
          result |-> IF reply # "ok" THEN TunnelError_StopWireguardError(reply) ELSE OkResult,
          panic |-> FALSE]
    ELSE [self |-> s, reqs |-> <<>>, result |-> OkResult, panic |-> FALSE]

\* Mutant of stop: the handle is unwrapped (take().unwrap()).
stop_unwrap(s, reply) ==
    IF s.tunnel # None
    THEN [self |-> [s EXCEPT !.tunnel = None],
          reqs |-> <<ReqRemoveProfile(s.tunnel)>>,
          result |-> IF reply # "ok" THEN TunnelError_StopWireguardError(reply) ELSE OkResult,
          panic |-> FALSE]
    ELSE [self |-> s, reqs |-> <<>>, result |-> OkResult, panic |-> TRUE]

\* Mutant of stop: a failed removal is tried a second time.
stop_retries_removal(s, reply) ==
    IF s.tunnel # None
    THEN [self |-> [s EXCEPT !.tunnel = None],
          reqs |-> IF reply # "ok"
                   THEN <<ReqRemoveProfile(s.tunnel), ReqRemoveProfile(s.tunnel)>>
                   ELSE <<ReqRemoveProfile(s.tunnel)>>,
          result |-> IF reply # "ok" THEN TunnelError_StopWireguardError(reply) ELSE OkResult,
          panic |-> FALSE]
    ELSE [self |-> s, reqs |-> <<>>, result |-> OkResult, panic |-> FALSE]

\* Lines 72-83.  reply is NetworkManager's answer to remove_tunnel, read
\* only when the request is made.  panic: the call panicked instead of
\* returning.
stop(s, reply) ==
    IF s.tunnel # None
    THEN [self |-> [s EXCEPT !.tunnel = None],
          reqs |-> <<ReqRemoveProfile(s.tunnel)>>,
          result |-> IF reply # "ok" THEN TunnelError_StopWireguardError(reply) ELSE OkResult,
          panic |-> FALSE]
    ELSE [self |-> s, reqs |-> <<>>, result |-> OkResult, panic |-> FALSE]

Stop(reply) ==
    /\ Returned
    /\ stopCalls < MaxStopCalls
    /\ stf = "none"
    /\ stopCalls' = stopCalls + 1
    /\ pc' = "Stopped"
    /\ self' = stop(self, reply).self
    /\ nmProfiles' = NmProfilesAfter(stop(self, reply).reqs, 0, "none", reply)
    /\ removeReqs' = NmRemoveReqsAfter(stop(self, reply).reqs)
    /\ last' = Last(gen, IF stop(self, reply).panic THEN "panic" ELSE "stop",
                    stop(self, reply).result, stop(self, reply).reqs,
                    IF RemovalsIn(stop(self, reply).reqs) # {} /\ reply # "ok"
                    THEN NmKind(reply) ELSE "none")
    /\ UNCHANGED <<gen, newResult, steps, stages, nameReply, kernelVars, futVars>>

\* Mutant of start_daita: the request is accepted and ignored.
start_daita_accepts(s, settings) ==
    [self |-> s, reqs |-> <<>>, result |-> OkResult]

\* Mutant of start_daita: the failure is reported as the config-apply error.
start_daita_generic_error(s, settings) ==
    [self |-> s, reqs |-> <<>>, result |-> TunnelError_SetConfigError]

\* Lines 115-118.
start_daita(s, settings) ==
    [self |-> s, reqs |-> <<>>, result |-> TunnelError_DaitaNotSupported]

StartDaita(settings) ==
    /\ Returned
    /\ self' = start_daita(self, settings).self
    /\ nmProfiles' = NmProfilesAfter(start_daita(self, settings).reqs, 0, "none", "ok")
    /\ removeReqs' = NmRemoveReqsAfter(start_daita(self, settings).reqs)
    /\ last' = Last(gen, "start_daita", start_daita(self, settings).result,
                    start_daita(self, settings).reqs, "capability")
    /\ UNCHANGED <<gen, pc, newResult, steps, stages, nameReply, stopCalls, kernelVars, futVars>>

\* Lines 85-89, up to the await: the request for the device named
\* self.interface_name goes out on a clone of the netlink handle.
get_tunnel_stats_request(s) == <<ReqGetByName(s.interface_name)>>

GetTunnelStatsPoll ==
    /\ pc = "Active"
    /\ stf = "none"
    /\ stf' = "sent"
    /\ last' = [Last(gen, "get_tunnel_stats_poll", OkResult, get_tunnel_stats_request(self), "none")
                  EXCEPT !.name = self.interface_name]
    /\ UNCHANGED <<nmVars, kernelVars, scf, seenIndex>>

\* Mutant of get_tunnel_stats: a missing device gives empty stats.
get_tunnel_stats_empty_on_miss(device) ==
    [result |-> OkResult, stats |-> IF device.found THEN parse_device_message(device) ELSE {}]

\* Lines 89-94, after the await: the kernel's answer, mapped to the result.
get_tunnel_stats(device) ==
    IF device.found
    THEN [result |-> OkResult, stats |-> parse_device_message(device)]
    ELSE [result |-> TunnelError_GetConfigError, stats |-> {}]

\* The kernel looks the device up and answers; the future completes.
GetTunnelStatsReply ==
    /\ stf = "sent"
    /\ stf' = "none"
    /\ seenIndex' = IF wg_get_by_name(self.interface_name).found
                    THEN wg_get_by_name(self.interface_name).index ELSE seenIndex
    /\ last' = [Last(gen, "get_tunnel_stats",
                     get_tunnel_stats(wg_get_by_name(self.interface_name)).result, <<>>,
                     IF wg_get_by_name(self.interface_name).found
                     THEN "none" ELSE "lookup_miss")
                  EXCEPT !.stats = get_tunnel_stats(wg_get_by_name(self.interface_name)).stats,
                         !.name = self.interface_name]
    /\ UNCHANGED <<nmVars, kernelVars, scf>>

\* Mutant of set_config_index: an index obtained earlier is reused.
set_config_index_cached(fut) ==
    IF seenIndex # 0 THEN seenIndex ELSE iface_index(fut.interface_name)

\* Line 104: the index the mutation will carry, looked up by the name the
\* future holds (0: the lookup failed).
set_config_index(fut) == iface_index(fut.interface_name)

\* Lines 97-108, up to the await: the future holds clones of the name and
\* of the netlink handle; a failed lookup ends it with SetConfigError,
\* otherwise the mutation for the index just looked up goes out.
set_config(s, config) ==
    LET fut == [pc |-> "created", interface_name |-> s.interface_name,
                config |-> config, index |-> 0]
    IN  IF set_config_index(fut) = 0
        THEN [fut |-> NoFuture, done |-> TRUE, result |-> TunnelError_SetConfigError,
              reqs |-> <<ReqIfaceIndex(fut.interface_name)>>]
        ELSE [fut |-> [fut EXCEPT !.pc = "sent", !.index = set_config_index(fut)],
              done |-> FALSE, result |-> OkResult,
              reqs |-> <<ReqIfaceIndex(fut.interface_name),
                         ReqSetConfig(set_config_index(fut), config)>>]

SetConfigPoll(config) ==
    /\ pc = "Active"
    /\ scf.pc = "none"
    /\ scf' = set_config(self, config).fut
    /\ seenIndex' = IF set_config(self, config).done THEN seenIndex
                    ELSE set_config(self, config).fut.index
    /\ last' = [Last(gen, IF set_config(self, config).done THEN "set_config" ELSE "set_config_poll",
                     set_config(self, config).result, set_config(self, config).reqs,
                     IF iface_index(self.interface_name) = 0 THEN "lookup_miss" ELSE "none")
                  EXCEPT !.config = config, !.name = self.interface_name,
                         !.index = set_config(self, config).fut.index,
                         !.prevIndex = seenIndex]
    /\ UNCHANGED <<nmVars, kernelVars, stf>>

\* Mutant of set_config_result: the kernel's error is logged and dropped.
set_config_result_swallow(applied) == OkResult

\* Lines 108-111: the kernel's answer to the mutation, mapped to the result.
set_config_result(applied) ==
    IF applied THEN OkResult ELSE TunnelError_SetConfigError

\* The kernel handles the mutation in flight and answers; the future
\* completes.
SetConfigReply(accept) ==
    /\ scf.pc = "sent"
    /\ devpeers' = KernelSetDevice(scf.index, scf.config, accept)
    /\ scf' = NoFuture
    /\ last' = [Last(gen, "set_config",
                     set_config_result(DeviceWithIndex(scf.index) # {} /\ accept), <<>>,
                     IF DeviceWithIndex(scf.index) = {} THEN "lookup_miss"
                     ELSE IF ~accept THEN "kernel_rejection" ELSE "none")
                  EXCEPT !.config = scf.config, !.name = scf.interface_name,
                         !.index = scf.index]
    /\ UNCHANGED <<nmVars, ifindex, nextIndex, stf, seenIndex>>

(* ------------------------ dropping a future --------------------------- *)

\* Mutant of drop_set_config: dropping the future closes the netlink
\* handle of the backend.
drop_set_config_closes_channel(s, fut) == [s EXCEPT !.netlink_connections = FALSE]

\* Lines 101-103: the future owns a clone of the name and a clone of the
\* netlink handle (async move); dropping it drops the clones and leaves
\* the backend as it is.
drop_set_config(s, fut) == s

\* The caller drops a set_config future: the one in flight (the kernel has
\* applied the mutation it carries, or never does), or one just created
\* and never polled (nothing was sent).
SetConfigDrop(applied) ==
    /\ \/ scf.pc = "sent"
       \/ scf.pc = "none" /\ pc = "Active" /\ ~applied
    /\ self' = drop_set_config(self, scf)
    /\ devpeers' = IF scf.pc = "sent"
                   THEN KernelSetDevice(scf.index, scf.config, applied) ELSE devpeers
    /\ scf' = NoFuture
    /\ last' = [Last(gen, "set_config_drop", OkResult, <<>>, "none")
                  EXCEPT !.config = scf.config, !.name = self.interface_name,
                         !.index = scf.index]
    /\ UNCHANGED <<gen, pc, newResult, steps, stages, nameReply, nmProfiles, removeReqs,
                   stopCalls, ifindex, nextIndex, stf, seenIndex>>

\* Lines 85-86: the future borrows the backend and owns a clone of the
\* netlink handle; dropping it ends the borrow and drops the clone.
drop_get_tunnel_stats(s) == s

\* The caller drops the get_tunnel_stats future at its await.
GetTunnelStatsDrop ==
    /\ stf = "sent"
    /\ stf' = "none"
    /\ self' = drop_get_tunnel_stats(self)
    /\ last' = [Last(gen, "get_tunnel_stats_drop", OkResult, <<>>, "none")
                  EXCEPT !.name = self.interface_name]
    /\ UNCHANGED <<gen, pc, newResult, steps, stages, nameReply, nmProfiles, removeReqs,
                   stopCalls, kernelVars, scf, seenIndex>>

(* ------------------------- text and encodings -------------------------- *)

\* A text is the sequence of its characters (one-character strings).
Digits == <<"0", "1", "2", "3", "4", "5", "6", "7", "8", "9">>
HexDigits == <<"0", "1", "2", "3", "4", "5", "6", "7", "8", "9",
               "a", "b", "c", "d", "e", "f">>

\* The standard base64 alphabet.
Base64Alphabet ==
    <<"A", "B", "C", "D", "E", "F", "G", "H", "I", "J", "K", "L", "M",
      "N", "O", "P", "Q", "R", "S", "T", "U", "V", "W", "X", "Y", "Z",
      "a", "b", "c", "d", "e", "f", "g", "h", "i", "j", "k", "l", "m",
      "n", "o", "p", "q", "r", "s", "t", "u", "v", "w", "x", "y", "z",
      "0", "1", "2", "3", "4", "5", "6", "7", "8", "9", "+", "/">>

\* The value of the digit ch in the table of digits.
DigitValue(table, ch) == (CHOOSE i \in 1..Len(table) : table[i] = ch) - 1

\* The number n written in the base of the table, without leading zeros.
RECURSIVE NumberToText(_, _)
NumberToText(table, n) ==
    IF n < Len(table) THEN <<table[n + 1]>>
    ELSE NumberToText(table, n \div Len(table)) \o <<table[(n % Len(table)) + 1]>>

\* The number a text of digits of the table stands for.
RECURSIVE TextToNumber(_, _)
TextToNumber(table, text) ==
    IF text = <<>> THEN 0
    ELSE TextToNumber(table, SubSeq(text, 1, Len(text) - 1)) * Len(table)
         + DigitValue(table, text[Len(text)])

\* The texts of a sequence, joined by the separator text.
RECURSIVE Join(_, _)
Join(texts, sep) ==
    IF texts = <<>> THEN <<>>
    ELSE IF Len(texts) = 1 THEN texts[1]
    ELSE texts[1] \o sep \o Join(Tail(texts), sep)

\* The pieces of a text between the occurrences of the character sep.
RECURSIVE Split(_, _)
Split(text, sep) ==
    IF \A i \in 1..Len(text) : text[i] # sep THEN <<text>>
    ELSE LET i == CHOOSE j \in 1..Len(text) :
                      text[j] = sep /\ \A k \in 1..(j - 1) : text[k] # sep
         IN  <<SubSeq(text, 1, i - 1)>> \o Split(SubSeq(text, i + 1, Len(text)), sep)

\* to_base64 of a key: three bytes give four characters; a rest of one or
\* two bytes gives two or three characters and padding.
RECURSIVE to_base64(_)
to_base64(bytes) ==
    IF bytes = <<>> THEN <<>>
    ELSE IF Len(bytes) = 1
    THEN <<Base64Alphabet[(bytes[1] \div 4) + 1],
           Base64Alphabet[((bytes[1] % 4) * 16) + 1], "=", "=">>
    ELSE IF Len(bytes) = 2
    THEN <<Base64Alphabet[(bytes[1] \div 4) + 1],
           Base64Alphabet[((bytes[1] % 4) * 16 + (bytes[2] \div 16)) + 1],
           Base64Alphabet[((bytes[2] % 16) * 4) + 1], "=">>
    ELSE <<Base64Alphabet[(bytes[1] \div 4) + 1],
           Base64Alphabet[((bytes[1] % 4) * 16 + (bytes[2] \div 16)) + 1],
           Base64Alphabet[((bytes[2] % 16) * 4 + (bytes[3] \div 64)) + 1],
           Base64Alphabet[(bytes[3] % 64) + 1]>>
         \o to_base64(SubSeq(bytes, 4, Len(bytes)))

\* The bytes a base64 text decodes to.
RECURSIVE from_base64(_)
from_base64(text) ==
    IF text = <<>> THEN <<>>
    ELSE LET v(i) == DigitValue(Base64Alphabet, text[i])
             rest == from_base64(SubSeq(text, 5, Len(text)))
         IN  IF text[3] = "=" THEN <<v(1) * 4 + (v(2) \div 16)>>
             ELSE IF text[4] = "="
             THEN <<v(1) * 4 + (v(2) \div 16), (v(2) % 16) * 16 + (v(3) \div 4)>>
             ELSE <<v(1) * 4 + (v(2) \div 16), (v(2) % 16) * 16 + (v(3) \div 4),
                    (v(3) % 4) * 64 + v(4)>> \o rest

\* IP addresses: four octets, or eight 16-bit segments.
Ipv4Addr(a, b, c, d) == [family |-> "v4", parts |-> <<a, b, c, d>>]
Ipv6Addr(segments) == [family |-> "v6", parts |-> segments]

is_ipv4(ip) == ip.family = "v4"
is_ipv6(ip) == ip.family = "v6"

\* The length of the run of zero segments that starts at position i.
ZeroRun(parts, i) ==
    CHOOSE k \in 0..(Len(parts) - i + 1) :
        /\ \A j \in i..(i + k - 1) : parts[j] = 0
        /\ (i + k > Len(parts) \/ parts[i + k] # 0)

\* The zero runs of all positions, the longest of them, and the first
\* position a run of length n starts at.
ZeroRuns(parts) == [i \in 1..Len(parts) |-> ZeroRun(parts, i)]
LongestZeroRun(runs) ==
    CHOOSE n \in {runs[i] : i \in 1..Len(runs)} : \A i \in 1..Len(runs) : runs[i] <= n
LongestZeroRunStart(runs, n) ==
    CHOOSE i \in 1..Len(runs) : runs[i] = n /\ \A j \in 1..(i - 1) : runs[j] # n

\* The segments of a sequence in hexadecimal, joined by colons.
HexGroups(parts) == Join([i \in 1..Len(parts) |-> NumberToText(HexDigits, parts[i])], <<":">>)

\* Display of an IP address: dotted decimal octets, or hexadecimal
\* segments with the longest run of two or more zero segments written "::".
ip_to_string(ip) ==
    IF is_ipv4(ip)
    THEN Join([i \in 1..Len(ip.parts) |-> NumberToText(Digits, ip.parts[i])], <<".">>)
    ELSE LET runs == ZeroRuns(ip.parts)
             n == LongestZeroRun(runs)
             s == LongestZeroRunStart(runs, n)
         IN  IF n < 2 THEN HexGroups(ip.parts)
             ELSE HexGroups(SubSeq(ip.parts, 1, s - 1)) \o <<":", ":">>
                  \o HexGroups(SubSeq(ip.parts, s + n, Len(ip.parts)))

\* The IP address a text parses to.
ip_from_string(text) ==
    IF \E i \in 1..Len(text) : text[i] = "."
    THEN LET p == Split(text, ".")
         IN  [family |-> "v4", parts |-> [i \in 1..Len(p) |-> TextToNumber(Digits, p[i])]]
    ELSE LET p == Split(text, ":")
             gaps == {i \in 1..Len(p) : p[i] = <<>>}
             num(q) == [i \in 1..Len(q) |-> TextToNumber(HexDigits, q[i])]
         IN  IF gaps = {} THEN [family |-> "v6", parts |-> num(p)]
             ELSE LET first == CHOOSE i \in gaps : \A j \in gaps : i <= j
                      final == CHOOSE i \in gaps : \A j \in gaps : j <= i
                      head == num(SubSeq(p, 1, first - 1))
                      tail == num(SubSeq(p, final + 1, Len(p)))
                  IN  [family |-> "v6",
                       parts |-> head \o [i \in 1..(8 - Len(head) - Len(tail)) |-> 0] \o tail]

\* Display of a socket address: "ip:port", the IP in brackets for IPv6.
socket_addr_to_string(addr) ==
    IF is_ipv4(addr.ip)
    THEN ip_to_string(addr.ip) \o <<":">> \o NumberToText(Digits, addr.port)
    ELSE <<"[">> \o ip_to_string(addr.ip) \o <<"]", ":">> \o NumberToText(Digits, addr.port)

\* The socket address a text parses to.
socket_addr_from_string(text) ==
    IF text[1] = "["
    THEN LET close == CHOOSE i \in 1..Len(text) : text[i] = "]"
         IN  [ip |-> ip_from_string(SubSeq(text, 2, close - 1)),
              port |-> TextToNumber(Digits, SubSeq(text, close + 2, Len(text)))]
    ELSE LET p == Split(text, ":")
         IN  [ip |-> ip_from_string(p[1]), port |-> TextToNumber(Digits, p[2])]

\* Display of an IP network: "ip/prefix".
ip_network_to_string(net) ==
    ip_to_string(net.ip) \o <<"/">> \o NumberToText(Digits, net.prefix)

\* The IP network a text parses to.
ip_network_from_string(text) ==
    LET p == Split(text, "/")
    IN  [ip |-> ip_from_string(p[1]), prefix |-> TextToNumber(Digits, p[2])]

(* ------------------------ Config and DeviceConfig ---------------------- *)

\* Option<u32>: None, or Some(value).
NoneU32 == [some |-> FALSE, value |-> 0]
SomeU32(v) == [some |-> TRUE, value |-> v]

\* Keys: KeyLen bytes each.
Keys ==
    {[i \in 1..KeyLen |-> 0], [i \in 1..KeyLen |-> 255], [i \in 1..KeyLen |-> (i * 37) % 256]}

\* The tunnel addresses, peer endpoints and allowed IPs Configs are made of.
TunnelAddrs ==
    {Ipv4Addr(10, 64, 0, 1),
     Ipv6Addr(<<64512, 48059, 0, 0, 0, 0, 0, 1>>),
     Ipv6Addr(<<8193, 3512, 1, 2, 3, 4, 5, 6>>)}

EndpointV4 == [ip |-> Ipv4Addr(185, 213, 154, 68), port |-> 51820]
EndpointV6 == [ip |-> Ipv6Addr(<<10755, 6944, 0, 5, 0, 0, 0, 10>>), port |-> 443]

AllowedAll == <<[ip |-> Ipv4Addr(0, 0, 0, 0), prefix |-> 0],
                [ip |-> Ipv6Addr(<<0, 0, 0, 0, 0, 0, 0, 0>>), prefix |-> 0]>>
AllowedOne == <<[ip |-> Ipv6Addr(<<65152, 0, 0, 0, 0, 0, 0, 0>>), prefix |-> 64]>>

\* Peers: a public key, an endpoint and a non-empty sequence of allowed IPs.
PeerSet ==
    {[public_key |-> k, endpoint |-> e[1], allowed_ips |-> e[2]] :
        k \in {[i \in 1..KeyLen |-> 255], [i \in 1..KeyLen |-> (i * 37) % 256]},
        e \in {<<EndpointV4, AllowedAll>>, <<EndpointV6, AllowedOne>>}}

\* The sequences of at most n elements of S, and those of at least one.
SeqUpTo(S, n) == UNION {[1..k -> S] : k \in 0..n}
SeqFrom1UpTo(S, n) == UNION {[1..k -> S] : k \in 1..n}

\* The Configs translated: at least one peer, in the caller's order,
\* duplicates allowed.
ConfigSet ==
    [mtu : {1380},
     fwmark : {NoneU32, SomeU32(0), SomeU32(51820)},
     private_key : {[i \in 1..KeyLen |-> 0], [i \in 1..KeyLen |-> (i * 37) % 256]},
     addresses : SeqUpTo(TunnelAddrs, MaxAddrs),
     peers : SeqFrom1UpTo(PeerSet, MaxPeers)]

\* The value of cfg while no Config is being translated.
NoConfig ==
    [mtu |-> 0, fwmark |-> NoneU32, private_key |-> <<>>, addresses |-> <<>>, peers |-> <<>>]

\* HashMap::new(), and insert on a map.
HashMap_new == <<>>
insert(map, key, value) == (key :> value) @@ map
is_empty(map) == DOMAIN map = {}

\* Config::peers(): the peers in the caller's order.
config_peers(config) == config.peers

\* NetworkManager::convert_address_to_dbus: the address record of an IP.
convert_address_to_dbus(ip) ==
    [address |-> ip_to_string(ip), prefix |-> IF is_ipv4(ip) THEN 32 ELSE 128]

(* ---------------------- convert_config_to_dbus ------------------------- *)

\* Mutant of wireguard_fwmark: an absent fwmark is sent as zero.
wireguard_fwmark_zero_when_absent(wireguard_config, config) ==
    insert(wireguard_config, "fwmark", config.fwmark.value)

\* Lines 129-131: the fwmark entry is inserted only for Some(fwmark).
wireguard_fwmark(wireguard_config, config) ==
    IF config.fwmark.some
    THEN insert(wireguard_config, "fwmark", config.fwmark.value)
    ELSE wireguard_config

\* Mutant of peer_config: every endpoint is written with the default port.
peer_config_default_port(peer) ==
    insert(insert(insert(HashMap_new,
        "allowed-ips", [i \in 1..Len(peer.allowed_ips) |->
                            ip_network_to_string(peer.allowed_ips[i])]),
        "endpoint", socket_addr_to_string([peer.endpoint EXCEPT !.port = 51820])),
        "public-key", to_base64(peer.public_key))

\* Lines 140-156: the entry of one peer.
peer_config(peer) ==
    insert(insert(insert(HashMap_new,
        "allowed-ips", [i \in 1..Len(peer.allowed_ips) |->
                            ip_network_to_string(peer.allowed_ips[i])]),
        "endpoint", socket_addr_to_string(peer.endpoint)),
        "public-key", to_base64(peer.public_key))

\* An entry is among those of a sequence.
Contains(entries, entry) == \E i \in 1..Len(entries) : entries[i] = entry

\* Mutant of peer_configs: a peer equal to an earlier one is skipped.
RECURSIVE peer_configs_dedup(_)
peer_configs_dedup(peers) ==
    IF peers = <<>> THEN <<>>
    ELSE LET before == peer_configs_dedup(SubSeq(peers, 1, Len(peers) - 1))
             entry == peer_config(peers[Len(peers)])
         IN  IF Contains(before, entry) THEN before ELSE Append(before, entry)

\* Lines 126, 139-158: the loop over config.peers() pushes one entry per
\* peer.
RECURSIVE peer_configs(_)
peer_configs(peers) ==
    IF peers = <<>> THEN <<>>
    ELSE Append(peer_configs(SubSeq(peers, 1, Len(peers) - 1)),
                peer_config(peers[Len(peers)]))

\* Lines 128-137, 160: the wireguard section (mtu as u32 widens a u16).
wireguard_config(config) ==
    insert(insert(insert(insert(
        wireguard_fwmark(insert(HashMap_new, "mtu", config.mtu), config),
        "peer-routes", FALSE),
        "private-key", to_base64(config.private_key)),
        "private-key-flags", 0),
        "peers", peer_configs(config_peers(config)))

\* Lines 162-171: the connection section.
connection_config(config) ==
    insert(insert(insert(insert(HashMap_new,
        "type", "wireguard"),
        "id", MULLVAD_INTERFACE_NAME),
        "interface-name", MULLVAD_INTERFACE_NAME),
        "autoconnect", TRUE)

\* Lines 173-179 and 181-187: the address records of one family.
ipv4_addrs(config) ==
    LET kept == SelectSeq(config.addresses, is_ipv4)
    IN  [i \in 1..Len(kept) |-> convert_address_to_dbus(kept[i])]
ipv6_addrs(config) ==
    LET kept == SelectSeq(config.addresses, is_ipv6)
    IN  [i \in 1..Len(kept) |-> convert_address_to_dbus(kept[i])]

\* Lines 189-194: the ipv4 section.
ipv4_config(config) ==
    insert(insert(insert(insert(insert(insert(HashMap_new,
        "address-data", ipv4_addrs(config)),
        "ignore-auto-routes", TRUE),
        "ignore-auto-dns", TRUE),
        "may-fail", TRUE),
        "method", "manual"),
        "never-default", TRUE)

\* Mutant of ipv6_config: the section is filled whatever the addresses.
ipv6_config_always(config) ==
    insert(insert(insert(insert(insert(HashMap_new,
        "method", "manual"),
        "address-data", ipv6_addrs(config)),
        "ignore-auto-routes", TRUE),
        "ignore-auto-dns", TRUE),
        "may-fail", TRUE)

\* Lines 122, 196-202: the ipv6 section, filled only when there is an
\* IPv6 address.
ipv6_config(config) ==
    IF ipv6_addrs(config) # <<>>
    THEN insert(insert(insert(insert(insert(HashMap_new,
            "method", "manual"),
            "address-data", ipv6_addrs(config)),
            "ignore-auto-routes", TRUE),
            "ignore-auto-dns", TRUE),
            "may-fail", TRUE)
    ELSE HashMap_new

\* Lines 121-212.
convert_config_to_dbus(config) ==
    LET with_ipv4 == insert(HashMap_new, "ipv4", ipv4_config(config))
        with_ipv6 == IF ~is_empty(ipv6_config(config))
                     THEN insert(with_ipv4, "ipv6", ipv6_config(config))
                     ELSE with_ipv4
    IN  insert(insert(with_ipv6,
            "wireguard", wireguard_config(config)),
            "connection", connection_config(config))

\* The translation of the Config at hand.
ConvertConfigToDbus ==
    /\ is_empty(deviceConfig)
    /\ cfg \in ConfigSet
    /\ deviceConfig' = convert_config_to_dbus(cfg)
    /\ UNCHANGED cfg

(* --------------------------- Sha256Verifier ---------------------------- *)

\* anyhow::Result<()>: Ok(()), or an error with its message.
VerifyOk == [ok |-> TRUE, error |-> ""]
VerifyErr(msg) == [ok |-> FALSE, error |-> msg]

\* No call was made yet.
NotVerified == [call |-> "none", out |-> VerifyOk]

\* The files at bin_path: none, or a file with its content whose reading
\* succeeds or fails.
BinFiles ==
    [exists : BOOLEAN, readable : BOOLEAN,
     content : SeqUpTo({0, 1, 255}, MaxContent)]

\* The value of binFile while nothing is being verified.
NoBinFile == [exists |-> FALSE, readable |-> FALSE, content |-> <<>>]

\* The hash values ([u8; 32] in the program).
Hashes == 0..(HashMod - 1)

\* crate::hash::checksum: the digest of the whole content of the reader
\* (every byte and its position count), or the read error.
RECURSIVE Digest(_)
Digest(content) ==
    IF content = <<>> THEN 5
    ELSE (Digest(SubSeq(content, 1, Len(content) - 1)) * 3 + content[Len(content)] + 1) % HashMod
checksum(reader) ==
    IF reader.readable THEN [ok |-> TRUE, hash |-> Digest(reader.content)]
    ELSE [ok |-> FALSE, hash |-> 0]

\* Mutant of verify_inner: the comparison is dropped.
verify_inner_no_comparison(reader, expected_hash) ==
    IF ~checksum(reader).ok THEN VerifyErr("read")
    ELSE VerifyOk

\* Lines 46-57.
verify_inner(reader, expected_hash) ==
    IF ~checksum(reader).ok THEN VerifyErr("read")
    ELSE IF expected_hash # checksum(reader).hash
    THEN VerifyErr("Invalid checksum for bin file")
    ELSE VerifyOk

\* Lines 28-43: the file is opened, then verify_inner reads it.
verify(file, expected_hash) ==
    IF ~file.exists THEN VerifyErr("Failed to open file")
    ELSE verify_inner(file, expected_hash)

\* Sha256Verifier::verify on the file at hand.
Verify ==
    /\ verifyResult = NotVerified
    /\ binFile \in BinFiles
    /\ verifyResult' = [call |-> "verify", out |-> verify(binFile, expectedHash)]
    /\ UNCHANGED <<binFile, expectedHash>>

\* Sha256Verifier::verify_inner on a reader over the content at hand (as
\* the test calls it on a Cursor).
VerifyInner ==
    /\ verifyResult = NotVerified
    /\ binFile \in BinFiles
    /\ binFile.exists
    /\ verifyResult' = [call |-> "verify_inner", out |-> verify_inner(binFile, expectedHash)]
    /\ UNCHANGED <<binFile, expectedHash>>

(* ----------------------------- AddressCache ---------------------------- *)

\* The tasks that hold a clone of the cache.
Tasks == 1..NumTasks

\* The hostname of the cache and the hosts resolve is asked for: the
\* hostname in another case, with the Kelvin sign in place of the letter
\* k (equal only when case is folded beyond ASCII), and other names.
API_HOST == <<"a", "p", "i", ".", "k">>
Hosts ==
    {API_HOST, <<"A", "P", "I", ".", "K">>, <<"a", "p", "i", ".", "U+212A">>,
     <<"a", "p", "i", ".", "x">>, <<"a", "p", "i">>}

\* The address the cache is created with, and the addresses set later.
InitialAddress == [ip |-> Ipv4Addr(45, 83, 223, 196), port |-> 443]
CacheAddrs == {InitialAddress, EndpointV4, EndpointV6}

UpperCase == <<"A", "B", "C", "D", "E", "F", "G", "H", "I", "J", "K", "L", "M",
               "N", "O", "P", "Q", "R", "S", "T", "U", "V", "W", "X", "Y", "Z">>
LowerCase == <<"a", "b", "c", "d", "e", "f", "g", "h", "i", "j", "k", "l", "m",
               "n", "o", "p", "q", "r", "s", "t", "u", "v", "w", "x", "y", "z">>

\* u8::to_ascii_lowercase on a character: the ASCII capitals change.
to_ascii_lowercase(ch) ==
    IF \E i \in 1..Len(UpperCase) : UpperCase[i] = ch
    THEN LowerCase[CHOOSE i \in 1..Len(UpperCase) : UpperCase[i] = ch]
    ELSE ch

\* Mutant of eq_ignore_ascii_case: the comparison is exact.
eq_exact(a, b) == a = b

\* str::eq_ignore_ascii_case (line 75).
eq_ignore_ascii_case(a, b) ==
    /\ Len(a) = Len(b)
    /\ \A i \in 1..Len(a) : to_ascii_lowercase(a[i]) = to_ascii_lowercase(b[i])

\* What the last step of a task did: the operation it returned from (with
\* its result) or the step of set_address it made.
CacheLast(t, op, ok, error) ==
    [task |-> t, op |-> op, ok |-> ok, error |-> error,
     arg |-> InitialAddress, host |-> <<>>, addrs |-> <<>>]

\* Lines 74-79 and 30-35: the addresses resolve returns, none standing
\* for the error "host does not match API host".
resolve(host, inner_address) ==
    IF eq_ignore_ascii_case(host, API_HOST) THEN <<inner_address>> ELSE <<>>

\* DnsResolver::resolve: the hostname is compared, then the address is
\* read under the lock (the wait for the lock is the step not being
\* enabled).
Resolve(t, host) ==
    /\ cpc[t] = "idle"
    /\ resolve(host, address) # <<>> => lock = 0
    /\ cacheLast' = [CacheLast(t, "resolve", resolve(host, address) # <<>>,
                               IF resolve(host, address) # <<>> THEN ""
                               ELSE "host does not match API host")
                       EXCEPT !.host = host, !.addrs = resolve(host, address)]
    /\ UNCHANGED <<writePath, address, lock, disk, cpc, carg, persisted>>

\* Lines 83-85: the address is read under the lock.
GetAddress(t) ==
    /\ cpc[t] = "idle"
    /\ lock = 0
    /\ cacheLast' = [CacheLast(t, "get_address", TRUE, "") EXCEPT !.addrs = <<address>>]
    /\ UNCHANGED <<writePath, address, lock, disk, cpc, carg, persisted>>

\* Line 87: set_address is called; the task waits for the lock.
SetAddressCall(t, a) ==
    /\ cpc[t] = "idle"
    /\ cpc' = [cpc EXCEPT ![t] = "lock"]
    /\ carg' = [carg EXCEPT ![t] = a]
    /\ cacheLast' = [CacheLast(t, "set_address_call", TRUE, "") EXCEPT !.arg = a]
    /\ UNCHANGED <<writePath, address, lock, disk, persisted>>

\* Mutant of inner_lock: the guard is dropped right after the comparison.
inner_lock_dropped(t) == 0

\* Line 88: the guard `inner` lives to the end of set_address; the value
\* is the holder of the lock while the address is saved.
inner_lock(t) == t

\* Mutant of set_address_store: the address is assigned whatever the save
\* returned.
set_address_store_always(inner_address, a, saved) == a

\* Lines 90-91: the in-memory address after save_to_disk returned: `?`
\* returns before the assignment when the save failed.
set_address_store(inner_address, a, saved) ==
    IF saved THEN a ELSE inner_address

\* Lines 88-93 and 97-100: the lock is taken; an address equal to the
\* selected one returns Ok at once; without a write path save_to_disk
\* returns Ok at once and the address is assigned; otherwise the save
\* starts.
SetAddressLocked(t) ==
    /\ cpc[t] = "lock"
    /\ lock = 0
    /\ IF carg[t] = address
       THEN /\ cpc' = [cpc EXCEPT ![t] = "idle"]
            /\ carg' = [carg EXCEPT ![t] = InitialAddress]
            /\ cacheLast' = [CacheLast(t, "set_address", TRUE, "") EXCEPT !.arg = carg[t]]
            /\ UNCHANGED <<address, lock>>
       ELSE IF ~writePath
       THEN /\ cpc' = [cpc EXCEPT ![t] = "idle"]
            /\ carg' = [carg EXCEPT ![t] = InitialAddress]
            /\ address' = set_address_store(address, carg[t], TRUE)
            /\ cacheLast' = [CacheLast(t, "set_address", TRUE, "") EXCEPT !.arg = carg[t]]
            /\ UNCHANGED lock
       ELSE /\ cpc' = [cpc EXCEPT ![t] = "save_new"]
            /\ lock' = inner_lock(t)
            /\ cacheLast' = [CacheLast(t, "set_address_locked", TRUE, "") EXCEPT !.arg = carg[t]]
            /\ UNCHANGED <<address, carg>>
    /\ UNCHANGED <<writePath, disk, persisted>>

\* A step of save_to_disk failed: set_address returns the error, the
\* guard is dropped.
SaveFailed(t, error) ==
    /\ cpc' = [cpc EXCEPT ![t] = "idle"]
    /\ carg' = [carg EXCEPT ![t] = InitialAddress]
    /\ lock' = IF lock = t THEN 0 ELSE lock
    /\ address' = set_address_store(address, carg[t], FALSE)
    /\ cacheLast' = [CacheLast(t, "set_address", FALSE, error) EXCEPT !.arg = carg[t]]
    /\ UNCHANGED <<writePath, disk, persisted>>

\* A step of save_to_disk succeeded and the next one is awaited.
SaveStep(t, op, next) ==
    /\ cpc' = [cpc EXCEPT ![t] = next]
    /\ cacheLast' = [CacheLast(t, op, TRUE, "") EXCEPT !.arg = carg[t]]
    /\ UNCHANGED <<writePath, address, lock, carg>>

\* Lines 102-104: AtomicFile::new opens a temporary file.
SaveNew(t, ok) ==
    /\ cpc[t] = "save_new"
    /\ IF ok THEN SaveStep(t, "save_new", "save_write") /\ UNCHANGED <<disk, persisted>>
       ELSE SaveFailed(t, "Open")

\* Lines 105-109: the address text and a newline are written to it.
SaveWrite(t, ok) ==
    /\ cpc[t] = "save_write"
    /\ IF ok THEN SaveStep(t, "save_write", "save_finalize") /\ UNCHANGED <<disk, persisted>>
       ELSE SaveFailed(t, "Write")

\* The content save_to_disk writes for an address.
file_contents(a) == socket_addr_to_string(a) \o <<"\n">>

\* Line 110: finalize puts the temporary file in the place of the file at
\* write_path, or fails and leaves that file as it was.
SaveFinalize(t, ok) ==
    /\ cpc[t] = "save_finalize"
    /\ IF ok
       THEN /\ SaveStep(t, "save_finalize", "store")
            /\ disk' = file_contents(carg[t])
            /\ persisted' = persisted \cup {carg[t]}
       ELSE SaveFailed(t, "Write")

\* Lines 91-93: the save returned Ok; the address is assigned, the guard
\* is dropped and set_address returns Ok.
SetAddressStore(t) ==
    /\ cpc[t] = "store"
    /\ cpc' = [cpc EXCEPT ![t] = "idle"]
    /\ carg' = [carg EXCEPT ![t] = InitialAddress]
    /\ address' = set_address_store(address, carg[t], TRUE)
    /\ lock' = IF lock = t THEN 0 ELSE lock
    /\ cacheLast' = [CacheLast(t, "set_address", TRUE, "") EXCEPT !.arg = carg[t]]
    /\ UNCHANGED <<writePath, disk, persisted>>

\* str::trim: the text without the whitespace at its ends.
RECURSIVE trim(_)
trim(text) ==
    IF text = <<>> THEN text
    ELSE IF text[Len(text)] \in {"\n", " "} THEN trim(SubSeq(text, 1, Len(text) - 1))
    ELSE IF text[1] \in {"\n", " "} THEN trim(Tail(text))
    ELSE text

\* Lines 126-133: the address in the file (trimmed and parsed), or the
\* error of a missing file.
read_address_file(file) ==
    IF file = <<>> THEN [ok |-> FALSE, address |-> InitialAddress]
    ELSE [ok |-> TRUE, address |-> socket_addr_from_string(trim(file))]

(* ------------------- build script (mullvad-version) ------------------- *)

\* Line 9: the number of characters of HEAD's commit hash in a dev suffix.
GIT_HASH_DEV_SUFFIX_LEN == 6

\* Lines 15-18: enum Target.
Targets == {"Android", "Desktop"}

\* The product versions the version files may name.
Versions == {<<"2", "5", ".", "1">>, <<"2", "5", ".", "2">>}

\* There is no file at the path.
NoFile == <<"(no file)">>

\* The contents the version file of a target may have: a version with a
\* line end, with whitespace around it, or no file.
VersionFiles ==
    {v \o <<"\n">> : v \in Versions}
        \cup {<<" ">> \o v \o <<"\n">> : v \in Versions}
        \cup {NoFile}

\* Commit hashes; the first two agree on their first 6 characters.
Commits ==
    { <<"a", "b", "c", "d", "e", "f", "0", "1">>,
      <<"a", "b", "c", "d", "e", "f", "0", "2">>,
      <<"1", "2", "3", "4", "5", "6", "a", "b">> }

\* Option<String>::None for a commit hash or a suffix.
NoCommit == <<>>

HEAD == <<"H", "E", "A", "D">>

\* Lines 61-64: the tag name of the release product_version of a target.
release_tag(target, product_version) ==
    IF target = "Android"
    THEN <<"a", "n", "d", "r", "o", "i", "d", "/">> \o product_version
    ELSE product_version

\* The tags a repository may hold.
TagNames == {release_tag(t, v) : t \in Targets, v \in Versions}

\* What the build script finds around it: whether the git command can be
\* run, whether the sources are in a repository, and in a repository the
\* commit of HEAD (NoCommit: no commit yet), the current branch (empty:
\* detached HEAD), the commit of each tag (NoCommit: no such tag) and
\* whether the refs are packed, that is, have no file of their own under
\* .git/refs.
GitStates ==
    [installed : BOOLEAN, repo : BOOLEAN, head : {NoCommit}, branch : {<<>>},
     tags : {[t \in TagNames |-> NoCommit]}, packed : {FALSE}]
        \cup [installed : {TRUE}, repo : {TRUE}, head : Commits \cup {NoCommit},
              branch : {<<>>, <<"m", "a", "i", "n">>},
              tags : [TagNames -> Commits \cup {NoCommit}], packed : BOOLEAN]

\* Lines 144-154: the hash of the commit git_ref points to; None when git
\* cannot be run or rev-parse fails.
git_rev_parse_commit_hash(g, git_ref) ==
    IF ~g.installed \/ ~g.repo THEN NoCommit
    ELSE IF git_ref = HEAD THEN g.head
    ELSE IF git_ref \in DOMAIN g.tags THEN g.tags[git_ref]
    ELSE NoCommit

\* Lines 82-96: None when HEAD has no hash or HEAD's hash is the hash of
\* the given ref, else "-dev-" and the head of HEAD's hash.
get_dev_suffix(g, tag) ==
    LET head_commit_hash == git_rev_parse_commit_hash(g, HEAD)
        product_version_commit_hash == git_rev_parse_commit_hash(g, tag)
    IN  IF head_commit_hash = NoCommit THEN NoCommit
        ELSE IF head_commit_hash = product_version_commit_hash THEN NoCommit
        ELSE <<"-", "d", "e", "v", "-">>
                 \o SubSeq(head_commit_hash, 1, GIT_HASH_DEV_SUFFIX_LEN)

\* Lines 101-139: the paths printed as rerun-if-changed, each only when
\* the file exists: .git/HEAD, the ref of the current branch and the ref
\* of the release tag.
rerun_if_git_ref_changed(g, tag) ==
    (IF g.repo THEN {<<"HEAD">>} ELSE {})
        \cup (IF g.repo /\ g.branch # <<>> /\ g.head # NoCommit /\ ~g.packed
              THEN {<<"refs", "heads", g.branch>>} ELSE {})
        \cup (IF g.repo /\ tag \in DOMAIN g.tags /\ g.tags[tag] # NoCommit /\ ~g.packed
              THEN {<<"refs", "tags", tag>>} ELSE {})

\* No get_product_version call was made.
NotBuilt ==
    [outcome |-> "none", target |-> "none", version |-> <<>>, watched |-> {},
     compared |-> NoCommit]

\* Lines 49-76: get_product_version.  It panics when the version file
\* cannot be read (line 56) and when the git command cannot be run
\* (line 115, through the expect of line 69).  Line 68 hands
\* rerun_if_git_ref_changed the release tag; line 71 hands get_dev_suffix
\* the product version.
get_product_version(target, file, g) ==
    IF file = NoFile
    THEN [NotBuilt EXCEPT !.outcome = "panic", !.target = target]
    ELSE
        LET product_version == trim(file)
            tag == release_tag(target, product_version)
            file_watch == {<<"version file", target>>}
        IN  IF ~g.installed
            THEN [NotBuilt EXCEPT !.outcome = "panic", !.target = target,
                                  !.watched = file_watch
                                      \cup (IF g.repo THEN {<<"HEAD">>} ELSE {})]
            ELSE
                LET dev_suffix == get_dev_suffix(g, product_version)
                IN  [outcome |-> "returned",
                     target |-> target,
                     version |-> IF dev_suffix # NoCommit
                                 THEN product_version \o dev_suffix
                                 ELSE product_version,
                     watched |-> file_watch \cup rerun_if_git_ref_changed(g, tag),
                     \* the ref line 86 resolves: none when line 85 returned
                     compared |-> IF git_rev_parse_commit_hash(g, HEAD) = NoCommit
                                  THEN NoCommit
                                  ELSE product_version]

\* Lines 35-36: main calls get_product_version for a target.
GetProductVersion(target) ==
    /\ built' = get_product_version(target, versionFiles[target], git)
    /\ UNCHANGED <<versionFiles, git>>

(* --------------------------- specification ---------------------------- *)

\* No translation is under way.
ConvIdle ==
    /\ cfg = NoConfig
    /\ deviceConfig = HashMap_new

\* No verification is under way.
VerIdle ==
    /\ binFile = NoBinFile
    /\ expectedHash = 0
    /\ verifyResult = NotVerified

\* No translation, verification or cache operation is under way.
\* The cache as AddressCache::new returns it; writable says whether it
\* was given a write path.
CacheCreated(writable) ==
    /\ writePath = writable
    /\ address = InitialAddress
    /\ lock = 0
    /\ disk = <<>>
    /\ cpc = [t \in Tasks |-> "idle"]
    /\ carg = [t \in Tasks |-> InitialAddress]
    /\ persisted = {}
    /\ cacheLast = CacheLast(0, "new", TRUE, "")

\* No build script has run.
BuildIdle ==
    /\ versionFiles = [t \in Targets |-> NoFile]
    /\ git = [installed |-> FALSE, repo |-> FALSE, head |-> NoCommit, branch |-> <<>>,
              tags |-> [t \in TagNames |-> NoCommit], packed |-> FALSE]
    /\ built = NotBuilt

InitExtIdle == ConvIdle /\ VerIdle /\ CacheCreated(FALSE) /\ BuildIdle

Init == InitBackend /\ InitExtIdle

\* The backend with a caller that keeps no failure.
Next ==
    \/ \E n \in Names : IfaceCreate(n) /\ UNCHANGED <<remembered, extVars>>
    \/ \E n \in Names : IfaceRemove(n) /\ UNCHANGED <<remembered, extVars>>
    \/ \E connect \in {"ok", NmTransport}, create \in {"ok"} \cup NmErrors,
          name \in Names \cup {"err"}, connected \in BOOLEAN :
          New(connect, create, name, connected) /\ UNCHANGED <<remembered, extVars>>
    \/ GetInterfaceName /\ UNCHANGED <<remembered, extVars>>
    \/ \E reply \in {"ok"} \cup NmErrors : Stop(reply) /\ UNCHANGED <<remembered, extVars>>
    \/ \E settings \in DaitaSettingsSet : StartDaita(settings) /\ UNCHANGED <<remembered, extVars>>
    \/ GetTunnelStatsPoll /\ UNCHANGED <<remembered, extVars>>
    \/ GetTunnelStatsReply /\ UNCHANGED <<remembered, extVars>>
    \/ \E config \in Configs : SetConfigPoll(config) /\ UNCHANGED <<remembered, extVars>>
    \/ \E accept \in BOOLEAN : SetConfigReply(accept) /\ UNCHANGED <<remembered, extVars>>
    \/ \E applied \in BOOLEAN : SetConfigDrop(applied) /\ UNCHANGED <<remembered, extVars>>
    \/ GetTunnelStatsDrop /\ UNCHANGED <<remembered, extVars>>

Spec == Init /\ [][Next]_vars

\* The backend with a caller that may keep one failure it saw, to compare
\* the later ones with.
NextErr ==
    \/ \E n \in Names : IfaceCreate(n) /\ Remember(last') /\ UNCHANGED extVars
    \/ \E n \in Names : IfaceRemove(n) /\ Remember(last') /\ UNCHANGED extVars
    \/ \E connect \in {"ok", NmTransport}, create \in {"ok"} \cup NmErrors,
          name \in Names \cup {"err"}, connected \in BOOLEAN :
          New(connect, create, name, connected) /\ Remember(last') /\ UNCHANGED extVars
    \/ GetInterfaceName /\ Remember(last') /\ UNCHANGED extVars
    \/ \E reply \in {"ok"} \cup NmErrors : Stop(reply) /\ Remember(last') /\ UNCHANGED extVars
    \/ \E settings \in DaitaSettingsSet : StartDaita(settings) /\ Remember(last') /\ UNCHANGED extVars
    \/ GetTunnelStatsPoll /\ Remember(last') /\ UNCHANGED extVars
    \/ GetTunnelStatsReply /\ Remember(last') /\ UNCHANGED extVars
    \/ \E config \in Configs : SetConfigPoll(config) /\ Remember(last') /\ UNCHANGED extVars
    \/ \E accept \in BOOLEAN : SetConfigReply(accept) /\ Remember(last') /\ UNCHANGED extVars
    \/ \E applied \in BOOLEAN : SetConfigDrop(applied) /\ Remember(last') /\ UNCHANGED extVars
    \/ GetTunnelStatsDrop /\ Remember(last') /\ UNCHANGED extVars

SpecErr == Init /\ [][NextErr]_vars

\* convert_config_to_dbus applied to any Config of ConfigSet.
InitConvert ==
    /\ InitBackend
    /\ cfg \in ConfigSet
    /\ deviceConfig = HashMap_new
    /\ VerIdle
    /\ CacheCreated(FALSE)
    /\ BuildIdle

NextConvert == ConvertConfigToDbus /\ UNCHANGED <<backendVars, verVars, cacheVars, buildVars>>

SpecConvert == InitConvert /\ [][NextConvert]_vars

\* Sha256Verifier applied to any file and any expected checksum.
InitVerify ==
    /\ InitBackend
    /\ ConvIdle
    /\ binFile \in BinFiles
    /\ expectedHash \in Hashes
    /\ verifyResult = NotVerified
    /\ CacheCreated(FALSE)
    /\ BuildIdle

NextVerify ==
    \/ Verify /\ UNCHANGED <<backendVars, convVars, cacheVars, buildVars>>
    \/ VerifyInner /\ UNCHANGED <<backendVars, convVars, cacheVars, buildVars>>

SpecVerify == InitVerify /\ [][NextVerify]_vars

\* Tasks calling resolve, get_address and set_address on clones of one
\* AddressCache, with or without a write path.
InitCache ==
    /\ InitBackend
    /\ ConvIdle
    /\ VerIdle
    /\ \E writable \in BOOLEAN : CacheCreated(writable)
    /\ BuildIdle

NextCache ==
    \/ \E t \in Tasks, host \in Hosts :
          Resolve(t, host) /\ UNCHANGED <<backendVars, convVars, verVars, buildVars>>
    \/ \E t \in Tasks : GetAddress(t) /\ UNCHANGED <<backendVars, convVars, verVars, buildVars>>
    \/ \E t \in Tasks, a \in CacheAddrs :
          SetAddressCall(t, a) /\ UNCHANGED <<backendVars, convVars, verVars, buildVars>>
    \/ \E t \in Tasks : SetAddressLocked(t) /\ UNCHANGED <<backendVars, convVars, verVars, buildVars>>
    \/ \E t \in Tasks, ok \in BOOLEAN :
          SaveNew(t, ok) /\ UNCHANGED <<backendVars, convVars, verVars, buildVars>>
    \/ \E t \in Tasks, ok \in BOOLEAN :
          SaveWrite(t, ok) /\ UNCHANGED <<backendVars, convVars, verVars, buildVars>>
    \/ \E t \in Tasks, ok \in BOOLEAN :
          SaveFinalize(t, ok) /\ UNCHANGED <<backendVars, convVars, verVars, buildVars>>
    \/ \E t \in Tasks : SetAddressStore(t) /\ UNCHANGED <<backendVars, convVars, verVars, buildVars>>

SpecCache == InitCache /\ [][NextCache]_vars

\* The build script run for either target, in any surroundings.
InitVersion ==
    /\ InitBackend
    /\ ConvIdle
    /\ VerIdle
    /\ CacheCreated(FALSE)
    /\ versionFiles \in [Targets -> VersionFiles]
    /\ git \in GitStates
    /\ built = NotBuilt

NextVersion ==
    \E target \in Targets :
        GetProductVersion(target) /\ UNCHANGED <<backendVars, convVars, verVars, cacheVars>>

SpecVersion == InitVersion /\ [][NextVersion]_vars

(* ------------------------------ claims -------------------------------- *)

\* The name construction chooses for NetworkManager's answer r.
ChosenName(r) == IF r = "err" THEN MULLVAD_INTERFACE_NAME ELSE r

\* s is a prefix of t.
IsPrefix(s, t) == Len(s) <= Len(t) /\ \A i \in 1..Len(s) : s[i] = t[i]

ConstructionOrder == <<"Uninitialized", "ProfileCreated", "ChannelReady", "Active">>

\* C1: every profile NetworkManager holds that was created by a new call
\* and not requested for removal is the profile of the backend the caller
\* holds; a failed new call leaves no profile of its own behind and
\* returns no backend.
C1_NoOrphanProfile ==
    /\ \A p \in nmProfiles : removeReqs[p] = 0 => (Returned /\ self.tunnel = p)
    /\ pc = "Failed" => (gen \notin nmProfiles /\ self = NoSelf)

\* C2: NetworkManager receives at most one removal request per profile,
\* only stop sends one, and only new and stop change the profile handle
\* of the backend.
C2_RemovalOnceOnlyByStop ==
    /\ [](\A p \in Profiles : removeReqs[p] <= 1)
    /\ [][removeReqs' # removeReqs => last'.op = "stop"]_vars
    /\ [][self'.tunnel # self.tunnel => last'.op \in {"new", "stop"}]_vars

\* C2 witness: stop was called twice on a backend, other operations were
\* made on it, and its profile got one removal request.
C2_Witness ==
    /\ stopCalls = 2
    /\ removeReqs[gen] = 1
    /\ seenIndex # 0
    /\ last.op = "start_daita"

\* C3: after any stop the backend holds no profile handle, whether the
\* removal succeeded or not; a stop on a backend already stopped returns
\* Ok and sends nothing; no stop panics.
C3_StopIdempotent ==
    /\ last.op # "panic"
    /\ last.op = "stop" => self.tunnel = None
    /\ (last.op = "stop" /\ stopCalls >= 2) => (last.result = OkResult /\ last.reqs = <<>>)

\* C3 witness: the second stop on a backend whose first removal failed
\* (the profile still exists, its removal was requested once).
C3_Witness ==
    /\ last.op = "stop"
    /\ stopCalls = 2
    /\ gen \in nmProfiles
    /\ removeReqs[gen] = 1

\* C4: a new call in which the D-Bus connection or the profile creation
\* failed returns the NetworkManager error with the client's error as its
\* cause, returns no backend, and issued neither the name query nor the
\* netlink setup; the construction states of every new call are an
\* initial part of Uninitialized, ProfileCreated, ChannelReady, Active.
C4_EarlyFailureAborts ==
    /\ IsPrefix(stages, ConstructionOrder)
    /\ (last.op = "new" /\ last.kind \in {"transport", "service_rejection"}) =>
          /\ \E err \in NmErrors : newResult = WgKernelError_NetworkManager(err)
          /\ NmKind(newResult.cause) = last.kind
          /\ pc = "Failed"
          /\ self = NoSelf
          /\ Types(steps) \cap {"nm_get_interface_name", "netlink_connect"} = {}
          /\ stages = <<"Uninitialized">>
          /\ gen \notin nmProfiles

\* C4 witness: NetworkManager rejected the profile creation of a new call.
C4_Witness ==
    /\ last.op = "new"
    /\ last.kind = "service_rejection"
    /\ "nm_create_wg_tunnel" \in Types(steps)

\* C5: a failed name query does not fail construction (the netlink setup
\* is attempted, and only its failure fails the call); a returned backend
\* has the name NetworkManager resolved, or the default name when the
\* query failed, and get_interface_name returns it, whatever operations
\* were made since.
C5_NameResolvedOrDefault ==
    /\ nameReply = "err" =>
          /\ "netlink_connect" \in Types(steps)
          /\ pc = "Failed" => newResult = WgKernelError_Netlink
    /\ Returned =>
          /\ nameReply \in Names \cup {"err"}
          /\ self.interface_name = ChosenName(nameReply)
    /\ last.op = "get_interface_name" => last.name = ChosenName(nameReply)

\* C5 witness: get_interface_name on a backend built after a failed name
\* query, after a set_config or get_tunnel_stats obtained an index and a
\* stop was made.
C5_Witness ==
    /\ last.op = "get_interface_name"
    /\ nameReply = "err"
    /\ last.name = MULLVAD_INTERFACE_NAME
    /\ seenIndex # 0
    /\ stopCalls > 0

\* C6: a step of set_config that sends a mutation sends it right after
\* the lookup by name of the same step, with the index the backend's
\* interface name has in the kernel at that moment.
C6_FreshIndex ==
    last.op = "set_config_poll" =>
        /\ ifindex[self.interface_name] # 0
        /\ last.reqs = <<ReqIfaceIndex(self.interface_name),
                         ReqSetConfig(ifindex[self.interface_name], last.config)>>
        /\ scf.index = ifindex[self.interface_name]

\* C6 witness: a mutation is sent with an index that differs from the one
\* the backend obtained before (the interface was recreated in between).
C6_Witness ==
    /\ last.op = "set_config_poll"
    /\ last.prevIndex # 0
    /\ last.prevIndex # last.index

\* C7: start_daita returns DaitaNotSupported and sends no request, and
\* the step changes neither the backend, nor NetworkManager's profiles,
\* nor the kernel's interfaces and peer sets, nor the futures in flight.
C7_StartDaitaRejects ==
    /\ [](last.op = "start_daita" =>
            (last.result = TunnelError_DaitaNotSupported /\ last.reqs = <<>>))
    /\ [][last'.op = "start_daita" =>
            UNCHANGED <<pc, self, nmProfiles, removeReqs, kernelVars, futVars>>]_vars

\* C7 witness: start_daita on an active backend whose device has peers.
C7_Witness ==
    /\ last.op = "start_daita"
    /\ pc = "Active"
    /\ devpeers[self.interface_name] # {}

\* C8: set_config returns Ok or SetConfigError, and SetConfigError when
\* the interface is missing or the kernel rejects the mutation; when the
\* lookup by name fails no mutation is sent and the peer sets stay as
\* they are; when it returns Ok the device of the index used has exactly
\* the peers of the given Config.
C8_SetConfigOutcome ==
    /\ [](last.op = "set_config" =>
            /\ last.result \in {OkResult, TunnelError_SetConfigError}
            /\ last.kind # "none" <=> last.result = TunnelError_SetConfigError
            /\ last.index = 0 =>
                  (last.kind = "lookup_miss" /\ "wg_set_config" \notin Types(last.reqs))
            /\ last.result = OkResult =>
                  (DeviceWithIndex(last.index) # {} /\
                   \A n \in DeviceWithIndex(last.index) : devpeers[n] = last.config))
    /\ [][(last'.op = "set_config" /\ last'.result # OkResult) => UNCHANGED kernelVars]_vars

\* C8 witness: set_config fails at the lookup (the backend's interface is
\* missing) while it had an index before.
C8_Witness ==
    /\ last.op = "set_config"
    /\ last.index = 0
    /\ last.prevIndex # 0
    /\ last.result = TunnelError_SetConfigError

\* C9: get_tunnel_stats returns GetConfigError exactly when no device
\* has the backend's interface name when the kernel looks it up, and
\* otherwise Ok with the peers of that device at that moment; neither of
\* its steps changes the backend, NetworkManager or the kernel.
C9_StatsReadOnly ==
    /\ [](last.op = "get_tunnel_stats" =>
            /\ last.result = TunnelError_GetConfigError <=> ifindex[self.interface_name] = 0
            /\ last.result # TunnelError_GetConfigError =>
                  (last.result = OkResult /\ last.stats = devpeers[self.interface_name]))
    /\ [][last'.op \in {"get_tunnel_stats", "get_tunnel_stats_poll"} =>
            UNCHANGED <<pc, self, nmProfiles, removeReqs, kernelVars, scf>>]_vars

\* C9 witness: get_tunnel_stats fails on a backend that had obtained an
\* index of its interface before (the interface was removed since).
C9_Witness ==
    /\ last.op = "get_tunnel_stats"
    /\ last.result = TunnelError_GetConfigError
    /\ seenIndex # 0

\* The failure kinds of the error taxonomy.
TaxonomyKinds ==
    {"transport", "service_rejection", "capability", "lookup_miss", "kernel_rejection"}

\* C10 as stated: two surfaced failures of different kinds never have the
\* same error value.
C10_DistinctPerKind ==
    (/\ remembered[1] \in TaxonomyKinds
     /\ last.kind \in TaxonomyKinds
     /\ remembered[2] = last.result) => remembered[1] = last.kind

\* C10 amended: two surfaced failures of different kinds have different
\* error values, except that a missing interface and a kernel rejection
\* both surface from set_config as SetConfigError.
C10_DistinctExceptSetConfig ==
    (/\ remembered[1] \in TaxonomyKinds
     /\ last.kind \in TaxonomyKinds
     /\ remembered[2] = last.result) =>
        \/ remembered[1] = last.kind
        \/ /\ last.result = TunnelError_SetConfigError
           /\ {remembered[1], last.kind} = {"lookup_miss", "kernel_rejection"}

\* C10 witness: a D-Bus transport failure surfaced earlier and a kernel
\* rejection surfaces now.
C10_Witness ==
    /\ remembered[1] = "transport"
    /\ last.kind = "kernel_rejection"
    /\ remembered[2] # last.result

\* The requests of a whole new call, in order.
NewRequests(p) == <<ReqDbusConnect, ReqCreateProfile, ReqGetName(p), ReqNetlinkConnect>>

\* C11: no step sends a request of one type twice; a new call sends an
\* initial part of connect, create, name query, channel setup; a
\* set_config sends one index lookup and at most one mutation, all in its
\* first step; a get_tunnel_stats sends one device lookup, in its first
\* step; a stop sends at most one removal; a step in which a request
\* failed returns an error, and a failed name query is answered by going
\* on with the channel setup.
C11_NoRetry ==
    /\ Cardinality(Types(last.reqs)) = Len(last.reqs)
    /\ last.op = "new" =>
          /\ IsPrefix(last.reqs, NewRequests(gen))
          /\ nameReply = "err" => last.reqs = NewRequests(gen)
    /\ last.op \in {"set_config", "set_config_poll"} =>
          /\ Types(last.reqs) \subseteq {"iface_index", "wg_set_config"}
          /\ last.reqs # <<>> => last.reqs[1] = ReqIfaceIndex(last.name)
          /\ (last.op = "set_config" /\ last.index # 0) => last.reqs = <<>>
    /\ last.op = "get_tunnel_stats_poll" => last.reqs = <<ReqGetByName(last.name)>>
    /\ last.op = "get_tunnel_stats" => last.reqs = <<>>
    /\ last.op = "stop" =>
          (Len(last.reqs) <= 1 /\ Types(last.reqs) \subseteq {"nm_remove_tunnel"})
    /\ last.kind # "none" => last.result # OkResult

\* C11 witness: the removal request of a stop failed, and was sent once.
C11_Witness ==
    /\ last.op = "stop"
    /\ last.kind = "service_rejection"
    /\ last.reqs = <<ReqRemoveProfile(gen)>>
    /\ removeReqs[gen] = 1

\* The steps that drop a future.
DropOps == {"set_config_drop", "get_tunnel_stats_drop"}

\* C12: dropping a set_config or get_tunnel_stats future leaves the
\* backend, NetworkManager and the kernel's interfaces as they are, and
\* the peer sets too unless the mutation in flight was applied; it frees
\* the future's slot; an active backend always holds the handle of its
\* own profile, the name construction chose and an open netlink handle;
\* and the call made right after a drop uses them: stop asks to remove
\* the backend's profile, set_config and get_tunnel_stats look the
\* backend's name up.
C12_CancellationSafe ==
    /\ [][last'.op \in DropOps =>
            /\ UNCHANGED <<pc, self, nmProfiles, removeReqs, stopCalls, ifindex, nextIndex>>
            /\ devpeers' # devpeers =>
                  (/\ last'.op = "set_config_drop"
                   /\ devpeers' = KernelSetDevice(scf.index, scf.config, TRUE))]_vars
    /\ [](last.op = "set_config_drop" => scf = NoFuture)
    /\ [](last.op = "get_tunnel_stats_drop" => stf = "none")
    /\ [](pc = "Active" =>
            self = [tunnel |-> gen, interface_name |-> ChosenName(nameReply),
                    netlink_connections |-> TRUE])
    /\ [][(last.op \in DropOps /\ pc = "Active") =>
            /\ last'.op = "stop" => last'.reqs = <<ReqRemoveProfile(gen)>>
            /\ (last'.op \in {"set_config", "set_config_poll"} /\ last'.reqs # <<>>) =>
                  last'.reqs[1] = ReqIfaceIndex(ChosenName(nameReply))
            /\ last'.op = "get_tunnel_stats_poll" =>
                  last'.reqs = <<ReqGetByName(ChosenName(nameReply))>>]_vars

\* C12 witness: a set_config future is dropped at its await on an active
\* backend, and the mutation it had sent was applied.
C12_Witness ==
    /\ last.op = "set_config_drop"
    /\ pc = "Active"
    /\ last.index # 0
    /\ DeviceWithIndex(last.index) # {}
    /\ \A n \in DeviceWithIndex(last.index) : devpeers[n] = last.config

\* A Config has been translated.
Converted == ~is_empty(deviceConfig)

\* The IP addresses the records of an address-data entry stand for.
AddressData(section) ==
    [i \in 1..Len(section["address-data"]) |->
        ip_from_string(section["address-data"][i].address)]

\* C13: the wireguard section of the translation has the key fwmark
\* exactly when the Config has a fwmark, and then with its value; the
\* Config with no fwmark and the same Config with fwmark 0 translate
\* differently.
C13_FwmarkOmission ==
    Converted =>
        /\ ("fwmark" \in DOMAIN deviceConfig["wireguard"]) <=> cfg.fwmark.some
        /\ cfg.fwmark.some => deviceConfig["wireguard"]["fwmark"] = cfg.fwmark.value
        /\ convert_config_to_dbus([cfg EXCEPT !.fwmark = NoneU32])
              # convert_config_to_dbus([cfg EXCEPT !.fwmark = SomeU32(0)])

\* C13 witness: a Config with fwmark Some(0) was translated, and the
\* wireguard section has fwmark 0.
C13_Witness ==
    /\ Converted
    /\ cfg.fwmark = SomeU32(0)
    /\ "fwmark" \in DOMAIN deviceConfig["wireguard"]
    /\ deviceConfig["wireguard"]["fwmark"] = 0

\* C14: the translation has the sections ipv4, wireguard and connection,
\* has the section ipv6 exactly when the Config has an IPv6 address, and
\* no other section; the address-data of ipv4 (of ipv6, when present)
\* stands for the Config's IPv4 (IPv6) addresses, in order, and an ipv6
\* section is never empty.
C14_FamilySections ==
    Converted =>
        /\ DOMAIN deviceConfig \ {"ipv6"} = {"ipv4", "wireguard", "connection"}
        /\ ("ipv6" \in DOMAIN deviceConfig) <=>
              (\E i \in 1..Len(cfg.addresses) : is_ipv6(cfg.addresses[i]))
        /\ AddressData(deviceConfig["ipv4"]) = SelectSeq(cfg.addresses, is_ipv4)
        /\ "ipv6" \in DOMAIN deviceConfig =>
              /\ ~is_empty(deviceConfig["ipv6"])
              /\ AddressData(deviceConfig["ipv6"]) # <<>>
              /\ AddressData(deviceConfig["ipv6"]) = SelectSeq(cfg.addresses, is_ipv6)

\* C14 witness: a Config whose addresses are all IPv4 (and there is one)
\* was translated, and the translation has no ipv6 section.
C14_Witness ==
    /\ Converted
    /\ cfg.addresses # <<>>
    /\ \A i \in 1..Len(cfg.addresses) : is_ipv4(cfg.addresses[i])
    /\ "ipv6" \notin DOMAIN deviceConfig

\* C15: the peers entry of the wireguard section has one element per
\* peer of the Config, in the Config's order, and element i has the
\* base64 public key, the endpoint text and the allowed-IP texts of
\* peer i.
C15_PeerOrder ==
    Converted =>
        LET peers == deviceConfig["wireguard"]["peers"]
        IN  /\ Len(peers) = Len(cfg.peers)
            /\ \A i \in 1..Len(cfg.peers) :
                  /\ peers[i]["public-key"] = to_base64(cfg.peers[i].public_key)
                  /\ peers[i]["endpoint"] = socket_addr_to_string(cfg.peers[i].endpoint)
                  /\ peers[i]["allowed-ips"] =
                        [j \in 1..Len(cfg.peers[i].allowed_ips) |->
                            ip_network_to_string(cfg.peers[i].allowed_ips[j])]

\* C15 witness: a Config with the same peer twice was translated, and the
\* peers entry has two elements.
C15_Witness ==
    /\ Converted
    /\ Len(cfg.peers) = 2
    /\ cfg.peers[1] = cfg.peers[2]
    /\ Len(deviceConfig["wireguard"]["peers"]) = 2

\* C16: decoding the base64 keys and parsing the endpoint and allowed-IP
\* texts of the translation gives the private key, the public keys, the
\* endpoints and the allowed IPs of the Config (so Configs that differ in
\* one of them have different translations).
C16_RoundTrip ==
    Converted =>
        LET peers == deviceConfig["wireguard"]["peers"]
        IN  /\ from_base64(deviceConfig["wireguard"]["private-key"]) = cfg.private_key
            /\ Len(peers) = Len(cfg.peers)
            /\ \A i \in 1..Len(peers) :
                  /\ from_base64(peers[i]["public-key"]) = cfg.peers[i].public_key
                  /\ socket_addr_from_string(peers[i]["endpoint"]) = cfg.peers[i].endpoint
                  /\ [j \in 1..Len(peers[i]["allowed-ips"]) |->
                         ip_network_from_string(peers[i]["allowed-ips"][j])]
                        = cfg.peers[i].allowed_ips

\* C16 witness: a Config with two different peers, one of them with an
\* IPv6 endpoint, and a private key that is not all zero was translated.
C16_Witness ==
    /\ Converted
    /\ Len(cfg.peers) = 2
    /\ cfg.peers[1] # cfg.peers[2]
    /\ is_ipv6(cfg.peers[2].endpoint.ip)
    /\ cfg.private_key[1] # 0

\* C17: verify and verify_inner return Ok exactly when the file can be
\* opened and read and the checksum of its content equals the expected
\* one; otherwise they return an error.
C17_AcceptsIffChecksumEqual ==
    verifyResult.call # "none" =>
        (verifyResult.out.ok <=>
            /\ binFile.exists
            /\ binFile.readable
            /\ Digest(binFile.content) = expectedHash)

\* C17 witness: verify_inner rejected a readable content whose checksum
\* differs from the expected one.
C17_Witness ==
    /\ verifyResult.call = "verify_inner"
    /\ binFile.readable
    /\ binFile.content # <<>>
    /\ Digest(binFile.content) # expectedHash
    /\ ~verifyResult.out.ok

\* A text with its ASCII capitals made small.
AsciiLowered(text) == [i \in 1..Len(text) |-> to_ascii_lowercase(text[i])]

\* C18: resolve returns exactly one address, the selected one, when the
\* host is the cache's hostname up to ASCII case, and otherwise the error
\* and no address.
C18_Resolve ==
    cacheLast.op = "resolve" =>
        IF AsciiLowered(cacheLast.host) = AsciiLowered(API_HOST)
        THEN cacheLast.ok /\ cacheLast.addrs = <<address>>
        ELSE ~cacheLast.ok /\ cacheLast.addrs = <<>>

\* C18 witness: resolve of the hostname written in capitals returns the
\* address a set_address selected.
C18_Witness ==
    /\ cacheLast.op = "resolve"
    /\ cacheLast.host # API_HOST
    /\ cacheLast.addrs = <<address>>
    /\ address # InitialAddress

NoSetAddressInProgress == \A t \in Tasks : cpc[t] \in {"idle", "lock"}

\* C20: with a write path, at most one task is between taking the lock
\* and returning from set_address, and it holds the lock; when none is
\* and some address was persisted, the file holds the selected address;
\* get_address returns the initial address or a persisted one.
C20_LockAcrossSaveAndStore ==
    writePath =>
        /\ \A t, u \in Tasks :
              (cpc[t] \notin {"idle", "lock"} /\ cpc[u] \notin {"idle", "lock"}) => t = u
        /\ \A t \in Tasks : cpc[t] \notin {"idle", "lock"} => lock = t
        /\ (NoSetAddressInProgress /\ persisted # {}) =>
              read_address_file(disk) = [ok |-> TRUE, address |-> address]
        /\ cacheLast.op = "get_address" =>
              \A i \in 1..Len(cacheLast.addrs) :
                  cacheLast.addrs[i] \in {InitialAddress} \cup persisted

\* C20 witness: a task waits for the lock in set_address while another
\* has put its address in the file and not yet selected it, after an
\* earlier set_address persisted another address.
C20_Witness ==
    /\ writePath
    /\ \E t, u \in Tasks : cpc[t] = "store" /\ cpc[u] = "lock"
    /\ Cardinality(persisted) >= 2
    /\ read_address_file(disk).address # address

\* C21: a get_product_version call that returns, for either target,
\* returns the trimmed product version when HEAD has no commit hash or
\* HEAD's commit is the commit of the release tag of the target
\* (android/<version> for Android, <version> for Desktop), and otherwise
\* the version followed by "-dev-" and the first 6 characters of HEAD's
\* hash; the ref HEAD is compared with is the release tag, the one whose
\* ref file is watched.
C21_ProductVersion ==
    built.outcome = "returned" =>
        LET product_version == trim(versionFiles[built.target])
            tag == release_tag(built.target, product_version)
            head == git_rev_parse_commit_hash(git, HEAD)
        IN  /\ built.version =
                  IF head = NoCommit \/ head = git_rev_parse_commit_hash(git, tag)
                  THEN product_version
                  ELSE product_version \o <<"-", "d", "e", "v", "-">>
                           \o SubSeq(head, 1, 6)
            /\ built.compared # NoCommit => built.compared = tag
            /\ \A ref \in TagNames :
                  <<"refs", "tags", ref>> \in built.watched => ref = tag

====
